---------------------------- MODULE Spec2Model ----------------------------
(***************************************************************************)
(* Model of examples/rust-project: the Calculator struct (lib.rs), its     *)
(* callers (main.rs, the unit tests) and the greet function.               *)
(*                                                                         *)
(* Calculator.value is an f64.  A finite f64 is written here as the pair   *)
(* (hi, lo) standing for the real number hi * 2^53 + lo with |lo| far      *)
(* below 2^52, which is exact IEEE-754 binary64 on the values the model    *)
(* feeds in (small integers, 2^53 and its small multiples): below 2^53     *)
(* every integer is representable, and in [2^(53+k), 2^(53+k+1)) the       *)
(* representable integers are the multiples of 2^(k+1).  Results are       *)
(* rounded to nearest, ties to even, as the hardware does.  Infinities and *)
(* NaN are values of their own.  Negative zero is left out: an             *)
(* accumulator that starts at +0.0 never becomes -0.0 by add or subtract.  *)
(***************************************************************************)
EXTENDS Integers, Sequences, FiniteSets, Bags, TLC

VARIABLES calcs, ops, last, name, message

vars == <<calcs, ops, last, name, message>>

---------------------------------------------------------------------------
(* Bounds of the model.                                                    *)

\* add/subtract calls issued in one run, over all calculators
MaxOps == 3
\* add/subtract calls issued to each calculator in the reordering harness
MaxPermOps == 3
\* length of the names given to greet
MaxLen == 3

\* the Calculator variables a caller holds (`let mut calc = ...`)
CalcIds == {1, 2}

---------------------------------------------------------------------------
(* f64 values.                                                             *)

Fin(h, l) == [k |-> "fin", hi |-> h, lo |-> l]
PosInf == [k |-> "inf", hi |-> 1, lo |-> 0]
NegInf == [k |-> "inf", hi |-> -1, lo |-> 0]
NaN == [k |-> "nan", hi |-> 0, lo |-> 0]
\* no f64 at all: the slot of a value that does not exist
NoValue == [k |-> "none", hi |-> 0, lo |-> 0]

Zero == Fin(0, 0)
Two == Fin(0, 2)
Three == Fin(0, 3)
Five == Fin(0, 5)
\* 2^53 = 9007199254740992.0, the first f64 whose successor is 2 away
Big == Fin(1, 0)

RECURSIVE Log2(_)
Log2(n) == IF n < 2 THEN 0 ELSE 1 + Log2(n \div 2)

RECURSIVE Pow2(_)
Pow2(e) == IF e <= 0 THEN 1 ELSE 2 * Pow2(e - 1)

\* Spacing of the f64 values around h * 2^53 + l, for h >= 1.
Ulp(h, l) ==
    IF l < 0 /\ Pow2(Log2(h)) = h
    THEN Pow2(Log2(h))
    ELSE Pow2(Log2(h) + 1)

\* l rounded to the nearest multiple of u, ties to the even multiple.
RoundTiesEven(l, u) ==
    LET q == l \div u
        r == l % u
    IN  IF 2 * r < u THEN q * u
        ELSE IF 2 * r > u THEN (q + 1) * u
        ELSE IF q % 2 = 0 THEN q * u ELSE (q + 1) * u

\* The f64 nearest to the real number h * 2^53 + l.
FRound(h, l) ==
    IF h = 0 THEN Fin(0, l)
    ELSE IF h > 0 THEN Fin(h, RoundTiesEven(l, Ulp(h, l)))
    ELSE Fin(h, -RoundTiesEven(-l, Ulp(-h, -l)))

IsF64(x) ==
    \/ x \in {PosInf, NegInf, NaN}
    \/ x.k = "fin" /\ FRound(x.hi, x.lo) = x

FNeg(x) ==
    IF x.k = "nan" THEN NaN
    ELSE IF x.k = "inf" THEN (IF x = PosInf THEN NegInf ELSE PosInf)
    ELSE Fin(-x.hi, -x.lo)

\* a + b with traps enabled on overflow and invalid operation
FAdd_trap(a, b) ==
    IF a.k # "fin" \/ b.k # "fin" THEN NoValue
    ELSE FRound(a.hi + b.hi, a.lo + b.lo)

\* a + b in f64
FAdd(a, b) ==
    IF a.k = "nan" \/ b.k = "nan" THEN NaN
    ELSE IF a.k = "inf" /\ b.k = "inf" THEN (IF a = b THEN a ELSE NaN)
    ELSE IF a.k = "inf" THEN a
    ELSE IF b.k = "inf" THEN b
    ELSE FRound(a.hi + b.hi, a.lo + b.lo)

\* a - b in f64
FSub(a, b) == FAdd(a, FNeg(b))

---------------------------------------------------------------------------
(* struct Calculator and its methods.  A method takes the caller's         *)
(* calculators (heap) and the one it is called on (self), and gives back   *)
(* the calculators afterwards with what it returns: a reference (ref) for  *)
(* &mut Self, a number (val) for f64.                                      *)

NoCalc == [value |-> NoValue]
NoRef == 0

Calculator_new_one == [value |-> Fin(0, 1)]

Calculator_new == [value |-> Zero]

Other(c) == CHOOSE d \in CalcIds : d # c

add_ret_other(heap, self, num) ==
    [heap |-> [heap EXCEPT ![self].value = FAdd(@, num)],
     ref |-> IF heap[Other(self)] # NoCalc THEN Other(self) ELSE self]

add_shared(heap, self, num) ==
    [heap |-> [c \in DOMAIN heap |->
                  IF heap[c] = NoCalc THEN heap[c]
                  ELSE [heap[c] EXCEPT !.value = FAdd(@, num)]],
     ref |-> self]

add(heap, self, num) ==
    [heap |-> [heap EXCEPT ![self].value = FAdd(@, num)],
     ref |-> self]

subtract_adds(heap, self, num) ==
    [heap |-> [heap EXCEPT ![self].value = FAdd(@, num)],
     ref |-> self]

subtract_swapped(heap, self, num) ==
    [heap |-> [heap EXCEPT ![self].value = FSub(num, @)],
     ref |-> self]

subtract(heap, self, num) ==
    [heap |-> [heap EXCEPT ![self].value = FSub(@, num)],
     ref |-> self]

get_value_take(heap, self) ==
    [heap |-> [heap EXCEPT ![self].value = Zero],
     val |-> heap[self].value]

get_value(heap, self) ==
    [heap |-> heap,
     val |-> heap[self].value]

---------------------------------------------------------------------------
(* format! and greet.  A string is the sequence of its characters.         *)

Chars == {"W", "{", "}", "!"}
World == <<"W", "o", "r", "l", "d">>
RustMCP == <<"R", "u", "s", "t", " ", "M", "C", "P">>
Names == UNION {[1..n -> Chars] : n \in 0..MaxLen} \cup {World, RustMCP}
\* `message` before main binds it
NoMessage == <<>>

\* format!(fmt, args...): the literal text of fmt, each {} replaced by the
\* next argument as Display writes it (a &str: its characters).
RECURSIVE Format(_, _)
Format(fmt, args) ==
    IF fmt = <<>> THEN <<>>
    ELSE IF Len(fmt) >= 2 /\ fmt[1] = "{" /\ fmt[2] = "}"
    THEN Head(args) \o Format(SubSeq(fmt, 3, Len(fmt)), Tail(args))
    ELSE <<Head(fmt)>> \o Format(Tail(fmt), args)

greet_no_space(n) ==
    Format(<<"H", "e", "l", "l", "o", ",", "{", "}", "!">>, <<n>>)

greet(n) ==
    Format(<<"H", "e", "l", "l", "o", ",", " ", "{", "}", "!">>, <<n>>)

---------------------------------------------------------------------------
(* The callers: main.rs and the tests, generalised to any sequence of      *)
(* calls.  ops[c] is the list of add/subtract calls the caller has written *)
(* against variable c, directly or further down a chain that starts at c;  *)
(* last is the most recent call: the variable it was written against,       *)
(* whether it was chained onto the call before it, and what it returned.   *)

Amounts == {Two, Five, Big, PosInf, NaN}
PermAmounts == {Five, Big, PosInf}

Call(o, c, chained, r, v) ==
    [op |-> o, self |-> c, chained |-> chained, ref |-> r, val |-> v]

NoCall == Call("none", NoRef, FALSE, NoRef, NoValue)

Init ==
    /\ calcs = [c \in CalcIds |-> NoCalc]
    /\ ops = [c \in CalcIds |-> <<>>]
    /\ last = NoCall
    /\ name = <<>>
    /\ message = NoMessage

Issued == Len(ops[1]) + Len(ops[2])

\* let mut c = Calculator::new();
New(c) ==
    /\ calcs[c] = NoCalc
    /\ calcs' = [calcs EXCEPT ![c] = Calculator_new]
    /\ last' = Call("new", c, FALSE, NoRef, NoValue)
    /\ UNCHANGED <<ops, name, message>>

\* c.add(num)
Add(c, num) ==
    /\ calcs[c] # NoCalc
    /\ LET r == add(calcs, c, num)
       IN  /\ calcs' = r.heap
           /\ last' = Call("add", c, FALSE, r.ref, NoValue)
    /\ ops' = [ops EXCEPT ![c] = Append(@, [op |-> "add", amount |-> num])]
    /\ UNCHANGED <<name, message>>

\* c.subtract(num)
Subtract(c, num) ==
    /\ calcs[c] # NoCalc
    /\ LET r == subtract(calcs, c, num)
       IN  /\ calcs' = r.heap
           /\ last' = Call("subtract", c, FALSE, r.ref, NoValue)
    /\ ops' = [ops EXCEPT ![c] = Append(@, [op |-> "subtract", amount |-> num])]
    /\ UNCHANGED <<name, message>>

\* .add(num) on the reference the previous add or subtract returned
ChainAdd(num) ==
    /\ last.op \in {"add", "subtract"}
    /\ LET r == add(calcs, last.ref, num)
       IN  /\ calcs' = r.heap
           /\ last' = Call("add", last.self, TRUE, r.ref, NoValue)
    /\ ops' = [ops EXCEPT ![last.self] = Append(@, [op |-> "add", amount |-> num])]
    /\ UNCHANGED <<name, message>>

\* .subtract(num) on the reference the previous add or subtract returned
ChainSubtract(num) ==
    /\ last.op \in {"add", "subtract"}
    /\ LET r == subtract(calcs, last.ref, num)
       IN  /\ calcs' = r.heap
           /\ last' = Call("subtract", last.self, TRUE, r.ref, NoValue)
    /\ ops' = [ops EXCEPT ![last.self] = Append(@, [op |-> "subtract", amount |-> num])]
    /\ UNCHANGED <<name, message>>

\* c.get_value()
GetValue(c) ==
    /\ calcs[c] # NoCalc
    /\ LET r == get_value(calcs, c)
       IN  /\ calcs' = r.heap
           /\ last' = Call("get_value", c, FALSE, NoRef, r.val)
    /\ UNCHANGED <<ops, name, message>>

Next ==
    \/ \E c \in CalcIds : New(c)
    \/ \E c \in CalcIds, num \in Amounts : Issued < MaxOps /\ Add(c, num)
    \/ \E c \in CalcIds, num \in Amounts : Issued < MaxOps /\ Subtract(c, num)
    \/ \E num \in Amounts : Issued < MaxOps /\ ChainAdd(num)
    \/ \E num \in Amounts : Issued < MaxOps /\ ChainSubtract(num)
    \/ \E c \in CalcIds : GetValue(c)

Spec == Init /\ [][Next]_vars

\* The reordering harness: two calculators fresh from new(), each given
\* add/subtract calls directly, so that the same calls can be issued to the
\* two in different orders.
InitPerm ==
    /\ calcs = [c \in CalcIds |-> Calculator_new]
    /\ ops = [c \in CalcIds |-> <<>>]
    /\ last = Call("new", 2, FALSE, NoRef, NoValue)
    /\ name = <<>>
    /\ message = NoMessage

NextPerm ==
    \/ \E c \in CalcIds, num \in PermAmounts :
          Len(ops[c]) < MaxPermOps /\ Add(c, num)
    \/ \E c \in CalcIds, num \in PermAmounts :
          Len(ops[c]) < MaxPermOps /\ Subtract(c, num)

SpecPerm == InitPerm /\ [][NextPerm]_vars

\* greet on every name of Names: let message = greet(name);
InitGreet ==
    /\ calcs = [c \in CalcIds |-> NoCalc]
    /\ ops = [c \in CalcIds |-> <<>>]
    /\ last = NoCall
    /\ name \in Names
    /\ message = NoMessage

Greet ==
    /\ message = NoMessage
    /\ message' = greet(name)
    /\ UNCHANGED <<calcs, ops, last, name>>

NextGreet == Greet

SpecGreet == InitGreet /\ [][NextGreet]_vars

---------------------------------------------------------------------------
(* What the properties below speak of.                                     *)

Allocated(c) == calcs[c] # NoCalc

AddOp(num) == [op |-> "add", amount |-> num]
SubOp(num) == [op |-> "subtract", amount |-> num]

\* One call applied to an accumulator value, in f64.
Apply(v, o) == IF o.op = "add" THEN FAdd(v, o.amount) ELSE FSub(v, o.amount)

\* The calls of s applied left to right to v, each result rounded to f64.
RECURSIVE Fold(_, _)
Fold(v, s) == IF s = <<>> THEN v ELSE Fold(Apply(v, Head(s)), Tail(s))

\* a + b over the extended reals, not rounded.
ExactAdd(a, b) ==
    IF a.k = "nan" \/ b.k = "nan" THEN NaN
    ELSE IF a.k = "inf" /\ b.k = "inf" THEN (IF a = b THEN a ELSE NaN)
    ELSE IF a.k = "inf" THEN a
    ELSE IF b.k = "inf" THEN b
    ELSE Fin(a.hi + b.hi, a.lo + b.lo)

ExactApply(v, o) ==
    IF o.op = "add" THEN ExactAdd(v, o.amount) ELSE ExactAdd(v, FNeg(o.amount))

\* 0 plus the add amounts minus the subtract amounts, as a real number
\* (infinite or undefined when the amounts make it so).
RECURSIVE AlgebraicSumFrom(_, _)
AlgebraicSumFrom(v, s) ==
    IF s = <<>> THEN v ELSE AlgebraicSumFrom(ExactApply(v, Head(s)), Tail(s))

AlgebraicSum(s) == AlgebraicSumFrom(Zero, s)

\* The amounts of the calls of s named o, added up in f64 in their order.
RECURSIVE SumOf(_, _, _)
SumOf(v, s, o) ==
    IF s = <<>> THEN v
    ELSE SumOf(IF Head(s).op = o THEN FAdd(v, Head(s).amount) ELSE v, Tail(s), o)

\* 0 plus the f64 sum of the add amounts minus the f64 sum of the subtract
\* amounts.
GroupedSum(s) == FSub(FAdd(Zero, SumOf(Zero, s, "add")), SumOf(Zero, s, "subtract"))

\* No call of s, applied left to right from v, has its result rounded:
\* every partial sum is an f64.
RECURSIVE NoRounding(_, _)
NoRounding(v, s) ==
    \/ s = <<>>
    \/ /\ Apply(v, Head(s)) = ExactApply(v, Head(s))
       /\ NoRounding(Apply(v, Head(s)), Tail(s))

\* The calls of s as a bag: how many times each occurs, order forgotten.
OpBag(s) ==
    [o \in {s[i] : i \in DOMAIN s} |-> Cardinality({i \in DOMAIN s : s[i] = o})]

SameOps(s, t) == OpBag(s) = OpBag(t)

---------------------------------------------------------------------------
(* C1 as stated: after any sequence of add and subtract calls on a         *)
(* Calculator from new(), its value is 0 plus the sum of the add amounts   *)
(* minus the sum of the subtract amounts, whether the sums are taken as    *)
(* real numbers or in f64.  Fails: add(2^53), subtract(2), add(5) leaves   *)
(* 2^53 + 4; the real sum is 2^53 + 3 and the f64 sums give 2^53 + 2.      *)
C1_AlgebraicSum ==
    \A c \in CalcIds :
        Allocated(c) =>
            \/ calcs[c].value = AlgebraicSum(ops[c])
            \/ calcs[c].value = GroupedSum(ops[c])

(* C1 amended: the value is the calls applied left to right in f64         *)
(* arithmetic, each result rounded; it is the algebraic sum whenever no    *)
(* result along the way is rounded; add(5).subtract(2) gives 3.            *)
C1_SequentialSum ==
    \A c \in CalcIds :
        Allocated(c) =>
            /\ calcs[c].value = Fold(Zero, ops[c])
            /\ NoRounding(Zero, ops[c]) => calcs[c].value = AlgebraicSum(ops[c])
            /\ ops[c] = <<AddOp(Five), SubOp(Two)>> => calcs[c].value = Three

\* The test's run, read back: new().add(5).subtract(2), get_value() = 3.
C1_Witness ==
    /\ ops[1] = <<AddOp(Five), SubOp(Two)>>
    /\ last.op = "get_value" /\ last.self = 1
    /\ last.val = Three

\* A run in which a result was rounded, read back.
C1_RoundedWitness ==
    /\ ops[1] = <<AddOp(Big), AddOp(Five)>>
    /\ last.op = "get_value" /\ last.self = 1
    /\ last.val = Fin(1, 4)

(* C2: a Calculator fresh from new(), before any add or subtract, holds    *)
(* 0.0, and get_value() on it returns 0.0.                                 *)
C2_NewIsZero ==
    /\ last.op = "new" => calcs[last.self] = [value |-> Zero]
    /\ \A c \in CalcIds :
          Allocated(c) /\ ops[c] = <<>> =>
              /\ calcs[c].value = Zero
              /\ last.op = "get_value" /\ last.self = c => last.val = Zero

C2_Witness ==
    /\ last.op = "get_value"
    /\ ops[last.self] = <<>>
    /\ last.val = Zero

(* C3: add and subtract return a reference to the accumulator they were    *)
(* called on, so a call chained onto an add or subtract written against c  *)
(* changes the calculators exactly as the same call made on c directly.    *)
C3_ChainSameAccumulator ==
    [][\A num \in Amounts :
          /\ \A c \in CalcIds : Add(c, num) \/ Subtract(c, num) => last'.ref = c
          /\ ChainAdd(num) =>
                /\ last'.ref = last.self
                /\ calcs' = add(calcs, last.self, num).heap
          /\ ChainSubtract(num) =>
                /\ last'.ref = last.self
                /\ calcs' = subtract(calcs, last.self, num).heap]_vars

\* calc.add(5).subtract(2) of the test, just after the chained subtract.
C3_Witness ==
    /\ last.op = "subtract" /\ last.chained
    /\ last.self = 1 /\ last.ref = 1
    /\ ops[1] = <<AddOp(Five), SubOp(Two)>>
    /\ calcs[1].value = Three
    /\ Allocated(2)

(* C4: get_value() returns the current value and changes no calculator; a  *)
(* get_value() right after another on the same calculator returns the same *)
(* value.                                                                  *)
C4_GetValuePure ==
    [][\A c \in CalcIds :
          GetValue(c) =>
              /\ calcs' = calcs
              /\ last'.val = calcs[c].value
              /\ last.op = "get_value" /\ last.self = c => last'.val = last.val]_vars

C4_Witness ==
    /\ last.op = "get_value"
    /\ Len(ops[last.self]) >= 2
    /\ last.val = calcs[last.self].value
    /\ last.val # Zero

(* C5: no call fails.  In every reachable state every calculator holds an  *)
(* f64 (a finite one, an infinity or NaN), and for every operand add and   *)
(* subtract leave one and get_value returns one.                           *)
C5_NoErrorOutcome ==
    /\ IsF64(Calculator_new.value)
    /\ last.op = "get_value" => IsF64(last.val)
    /\ \A c \in CalcIds :
          Allocated(c) =>
              /\ IsF64(calcs[c].value)
              /\ IsF64(get_value(calcs, c).val)
              /\ \A num \in Amounts :
                    /\ IsF64(add(calcs, c, num).heap[c].value)
                    /\ IsF64(subtract(calcs, c, num).heap[c].value)

\* inf - inf: the result is NaN, a value, and get_value returns it.
C5_Witness ==
    /\ ops[1] = <<AddOp(PosInf), SubOp(PosInf)>>
    /\ last.op = "get_value" /\ last.self = 1
    /\ last.val = NaN

(* C6 as stated: two calculators from new() given the same add and         *)
(* subtract calls in any two orders end with the same value.  Fails:       *)
(* add(2^53), add(5), subtract(2^53) gives 4; add(2^53), subtract(2^53),   *)
(* add(5) gives 5.                                                         *)
C6_OrderIndependent ==
    SameOps(ops[1], ops[2]) => calcs[1].value = calcs[2].value

(* C6 amended: the same calls in two orders end with the same value        *)
(* provided no result is rounded along the way in either order.            *)
C6_OrderIndependentExact ==
    /\ SameOps(ops[1], ops[2])
    /\ NoRounding(Zero, ops[1])
    /\ NoRounding(Zero, ops[2])
    => calcs[1].value = calcs[2].value

C6_Witness ==
    /\ ops[1] = <<AddOp(Big), SubOp(Five), AddOp(Five)>>
    /\ ops[2] = <<SubOp(Five), AddOp(Five), AddOp(Big)>>
    /\ NoRounding(Zero, ops[1]) /\ NoRounding(Zero, ops[2])
    /\ calcs[1].value = Big /\ calcs[2].value = Big

(* C7: calculators are independent.  An add or subtract made on one,       *)
(* directly or down a chain, leaves every other calculator as it was,      *)
(* however the calls on the two are interleaved.                           *)
C7_Independent ==
    [][\A num \in Amounts :
          /\ \A c \in CalcIds :
                Add(c, num) \/ Subtract(c, num) =>
                    \A d \in CalcIds \ {c} : calcs'[d] = calcs[d]
          /\ ChainAdd(num) \/ ChainSubtract(num) =>
                \A d \in CalcIds \ {last.self} : calcs'[d] = calcs[d]]_vars

\* Calls on 1 and 2 interleaved: 2 still holds what its own calls made.
C7_Witness ==
    /\ last.op = "add" /\ last.self = 1
    /\ Len(ops[1]) = 2 /\ Len(ops[2]) = 1
    /\ calcs[2].value = Fold(Zero, ops[2])
    /\ calcs[1].value # calcs[2].value

(* C8: greet(name) is "Hello, " then name then "!", for every name, the    *)
(* empty one and those holding braces included; greet("World") is          *)
(* "Hello, World!".                                                        *)
C8_GreetFormat ==
    message # NoMessage =>
        /\ message = <<"H", "e", "l", "l", "o", ",", " ">> \o name \o <<"!">>
        /\ name = World =>
              message = <<"H", "e", "l", "l", "o", ",", " ",
                          "W", "o", "r", "l", "d", "!">>

C8_Witness ==
    /\ name = World
    /\ message = <<"H", "e", "l", "l", "o", ",", " ",
                   "W", "o", "r", "l", "d", "!">>

\* greet on a name that is itself a placeholder, and on the empty name.
C8_BraceWitness ==
    /\ name = <<"{", "}">>
    /\ message = <<"H", "e", "l", "l", "o", ",", " ", "{", "}", "!">>

=============================================================================
